---- MODULE Spec2Model ----
(***************************************************************************)
(* Model of three adapters of crewAI:                                      *)
(*   - CrewEvaluator   (utilities/evaluators/crew_evaluator_handler.py)    *)
(*   - EmbeddingConfigurator (utilities/embedding_configurator.py)         *)
(*   - Memory          (memory/memory.py)                                  *)
(* The three objects share no state; each has its own specification over   *)
(* the module's variables (Spec, EmbedSpec, MemorySpec).                   *)
(***************************************************************************)
EXTENDS Integers, Sequences, FiniteSets, TLC

VARIABLES
    crew,                 \* crew.tasks: the descriptions of the crew's tasks
    tasks_scores,         \* CrewEvaluator.tasks_scores (class attribute, one per process)
    run_execution_times,  \* CrewEvaluator.run_execution_times (class attribute)
    iteration,            \* iteration of the CrewEvaluator instance in use
    okCount,              \* history: the evaluate calls on that instance that returned, per iteration
    result,               \* outcome of the last CrewEvaluator call
    embed_calls,          \* configure functions invoked by EmbeddingConfigurator, in order
    embed_last,           \* input and outcome of the last configure_embedder call
    storage_saved,        \* the storage.save calls Memory.storage received, in order
    storage_searched,     \* the storage.search calls Memory.storage received, in order
    mem_last              \* the last Memory call

evalVars == <<crew, tasks_scores, run_execution_times, iteration, okCount, result>>
embedVars == <<embed_calls, embed_last>>
memVars == <<storage_saved, storage_searched, mem_last>>
vars == <<crew, tasks_scores, run_execution_times, iteration, okCount, result,
          embed_calls, embed_last, storage_saved, storage_searched, mem_last>>

\* Python's None, and a key that a dict does not hold
None == "None"
Absent == "<absent>"

-----------------------------------------------------------------------------
(* Bounds *)

MaxTasks == 2      \* tasks of the crew
MaxIter == 2       \* iteration numbers passed to set_iteration: 0..MaxIter
MaxEvals == 3      \* evaluate calls that store a score
MaxEmbedCalls == 2 \* configure functions invoked
MaxStorageCalls == 2 \* calls forwarded to the storage

Scores == {9, 10}                \* quality values returned by the evaluator LLM
Iterations == 0..MaxIter
NotPydantic == 0                 \* an evaluation result whose pydantic is not a TaskEvaluationPydanticOutput
Evaluations == Scores \cup {NotPydantic}

-----------------------------------------------------------------------------
(* Arithmetic helpers *)

RECURSIVE SeqSum(_)
SeqSum(s) == IF s = <<>> THEN 0 ELSE Head(s) + SeqSum(Tail(s))

Min(S) == CHOOSE x \in S : \A y \in S : x <= y

RECURSIVE SortedSeq(_)
SortedSeq(S) == IF S = {} THEN <<>> ELSE <<Min(S)>> \o SortedSeq(S \ {Min(S)})

RECURSIVE Pow10(_)
Pow10(n) == IF n = 0 THEN 1 ELSE 10 * Pow10(n - 1)

\* a float that is a quotient of integers is kept exact, as <<numerator, denominator>>
Div(num, den) == <<num, den>>
RAdd(a, b) == <<a[1] * b[2] + b[1] * a[2], a[2] * b[2]>>

RECURSIVE RSum(_)
RSum(s) == IF s = <<>> THEN <<0, 1>> ELSE RAdd(Head(s), RSum(Tail(s)))

\* format(x, ".<digits>f") of a non-negative x: x rounded to `digits` decimals
\* (ties to even), given as the integer x * 10^digits
Format(x, digits) ==
    LET scaled == x[1] * Pow10(digits)
        q == scaled \div x[2]
        r == scaled % x[2]
    IN  IF 2 * r < x[2] THEN q
        ELSE IF 2 * r > x[2] THEN q + 1
        ELSE IF q % 2 = 0 THEN q ELSE q + 1

-----------------------------------------------------------------------------
(* CrewEvaluator *)

\* the crews of the model: tasks with pairwise different descriptions 1..n
Crews == {[k \in 1..n |-> k] : n \in 0..MaxTasks}

\* what evaluate may be handed: no TaskOutput, or one with a description
\* (MaxTasks + 1 is the description of no task)
NoOutput == 0
TaskOutputs == {NoOutput} \cup (1..(MaxTasks + 1))

\* Task._execution_time of the k-th task of the crew (every task took as long)
execution_time(k) == 42

NoTable == [runs |-> <<>>, tasks |-> <<>>, crew |-> [scores |-> <<>>, avg |-> 0]]

\* defaultdict(list): a lookup of a missing key inserts it with an empty list
Lookup(d, key) == IF key \in DOMAIN d THEN d[key] ELSE <<>>
Touch(d, key) == IF key \in DOMAIN d THEN d ELSE d @@ (key :> <<>>)
AppendTo(d, key, x) == [k \in DOMAIN d \cup {key} |-> IF k = key THEN Append(Lookup(d, key), x) ELSE d[k]]

RECURSIVE StoredIn(_, _)
StoredIn(d, keys) ==
    IF keys = {} THEN 0
    ELSE LET k == CHOOSE x \in keys : TRUE IN Len(d[k]) + StoredIn(d, keys \ {k})
Stored(d) == StoredIn(d, DOMAIN d)

\* the loop of evaluate: the index of the first task whose description is
\* task_output.description, 0 for none
MatchingTask(tasks, description) ==
    IF \E k \in 1..Len(tasks) : tasks[k] = description
    THEN Min({k \in 1..Len(tasks) : tasks[k] = description})
    ELSE 0

\* the exception evaluate raises before it runs the evaluation task, or None
EvaluateGuard(tasks, task_output) ==
    IF task_output = NoOutput /\ Len(tasks) > 0 THEN "AttributeError"
    ELSE IF task_output = NoOutput \/ MatchingTask(tasks, task_output) = 0 THEN "ValueError"
    ELSE None

\* the stores after evaluate has got `quality` back for the task `current`
StoreScore(scores, it, quality) == AppendTo(scores, it, quality)
StoreTime(times, it, current) == AppendTo(times, it, execution_time(current))

\* range(1, len(self.tasks_scores) + 1)
Runs(scores) == 1..Cardinality(DOMAIN scores)

\* the averages without the zip: one per run instead of one per task
task_averages_per_run(scores) ==
    LET keys == SortedSeq(DOMAIN scores)
    IN  [j \in 1..Len(keys) |-> Div(SeqSum(scores[keys[j]]), Len(scores[keys[j]]))]

\* sum(scores) / len(scores) for scores in zip(*self.tasks_scores.values())
task_averages(scores) ==
    LET keys == SortedSeq(DOMAIN scores)
        n == Len(keys)
        shortest == IF n = 0 THEN 0 ELSE Min({Len(scores[k]) : k \in DOMAIN scores})
    IN  [t \in 1..shortest |-> Div(SeqSum([j \in 1..n |-> scores[keys[j]][t]]), n)]

\* sum(task_averages) / len(task_averages)
crew_average(averages) ==
    LET total == RSum(averages)
    IN  Div(total[1], total[2] * Len(averages))

\* the first run of range(1, n + 1) whose list has no element at index t - 1
FirstShort(scores, t) ==
    LET short == {r \in Runs(scores) : Len(Lookup(scores, r)) < t}
    IN  IF short = {} THEN 0 ELSE Min(short)

\* the row of task t: its score of every run, and its average
TaskRow(scores, averages, t) ==
    [scores |-> [r \in Runs(scores) |-> Format(Div(scores[r][t], 1), 1)],
     avg |-> Format(averages[t], 1)]

\* the Crew row: the average of every run, and the crew average
CrewRow(scores, averages) ==
    [scores |-> [r \in Runs(scores) |-> Format(Div(SeqSum(scores[r]), Len(scores[r])), 2)],
     avg |-> Format(crew_average(averages), 1)]

\* print_crew_evaluation_result, statement by statement: the exception it
\* ends with (or None), tasks_scores as it leaves it, and the table it prints.
\* The Agents column and the Execution Time row are not part of the table
\* modelled here.
PrintResult(scores, tasks) ==
    LET averages == task_averages(scores)
        m == Len(tasks)
        badTasks == {t \in 1..m : FirstShort(scores, t) # 0 \/ t > Len(averages)}
    IN  IF Len(averages) = 0
        THEN [raised |-> "ZeroDivisionError", scores |-> scores, table |-> NoTable]
        ELSE IF badTasks # {}
        THEN [raised |-> "IndexError",
              scores |-> IF FirstShort(scores, Min(badTasks)) = 0 THEN scores
                         ELSE Touch(scores, FirstShort(scores, Min(badTasks))),
              table |-> NoTable]
        ELSE IF FirstShort(scores, 1) # 0
        THEN [raised |-> "ZeroDivisionError",
              scores |-> Touch(scores, FirstShort(scores, 1)),
              table |-> NoTable]
        ELSE [raised |-> None,
              scores |-> scores,
              table |-> [runs |-> [r \in Runs(scores) |-> r],
                         tasks |-> [t \in 1..m |-> TaskRow(scores, averages, t)],
                         crew |-> CrewRow(scores, averages)]]

Outcome(op, raised, llm, table) ==
    [op |-> op, raised |-> raised, llm |-> llm, table |-> table]

EvalInit ==
    /\ crew \in Crews
    /\ tasks_scores = <<>>
    /\ run_execution_times = <<>>
    /\ iteration = 0
    /\ okCount = [i \in Iterations |-> 0]
    /\ result = Outcome("__init__", None, FALSE, NoTable)

\* CrewEvaluator(crew, llm): a further instance for the same crew, used from now
\* on. tasks_scores and run_execution_times are attributes of the class, which
\* __init__ does not rebind; iteration reads the class's 0 until it is set.
NewEvaluator ==
    /\ iteration' = 0
    /\ okCount' = [i \in Iterations |-> 0]
    /\ result' = Outcome("__init__", None, FALSE, NoTable)
    /\ UNCHANGED <<crew, tasks_scores, run_execution_times>>
    /\ UNCHANGED <<embedVars, memVars>>

\* set_iteration(iteration)
SetIteration(i) ==
    /\ iteration' = i
    /\ result' = Outcome("set_iteration", None, FALSE, NoTable)
    /\ UNCHANGED <<crew, tasks_scores, run_execution_times, okCount>>
    /\ UNCHANGED <<embedVars, memVars>>

\* evaluate(task_output); when the evaluation task is run, it returns a quality
\* or a result that is not in the expected format
Evaluate(task_output) ==
    LET guard == EvaluateGuard(crew, task_output)
        current == MatchingTask(crew, task_output)
    IN  /\ IF guard # None
           THEN /\ result' = Outcome("evaluate", guard, FALSE, NoTable)
                /\ UNCHANGED <<tasks_scores, run_execution_times, okCount>>
           ELSE \E evaluation \in Evaluations :
                IF evaluation = NotPydantic
                THEN /\ result' = Outcome("evaluate", "ValueError", TRUE, NoTable)
                     /\ UNCHANGED <<tasks_scores, run_execution_times, okCount>>
                ELSE /\ Stored(tasks_scores) < MaxEvals
                     /\ tasks_scores' = StoreScore(tasks_scores, iteration, evaluation)
                     /\ run_execution_times' =
                            StoreTime(run_execution_times, iteration, current)
                     /\ okCount' = [okCount EXCEPT ![iteration] = @ + 1]
                     /\ result' = Outcome("evaluate", None, TRUE, NoTable)
        /\ UNCHANGED <<crew, iteration>>
        /\ UNCHANGED <<embedVars, memVars>>

\* print_crew_evaluation_result()
PrintCrewEvaluationResult ==
    LET out == PrintResult(tasks_scores, crew)
    IN  /\ tasks_scores' = out.scores
        /\ result' = Outcome("print", out.raised, FALSE, out.table)
        /\ UNCHANGED <<crew, run_execution_times, iteration, okCount>>
        /\ UNCHANGED <<embedVars, memVars>>

-----------------------------------------------------------------------------
(* EmbeddingConfigurator *)

SupportedProviders ==
    {"openai", "azure", "ollama", "vertexai", "google", "cohere", "voyageai",
     "bedrock", "huggingface", "watson", "custom"}

\* self.embedding_functions, by the name of the method each provider maps to
embedding_functions ==
    [p \in SupportedProviders |->
        CASE p = "openai" -> "_configure_openai"
          [] p = "azure" -> "_configure_azure"
          [] p = "ollama" -> "_configure_ollama"
          [] p = "vertexai" -> "_configure_vertexai"
          [] p = "google" -> "_configure_google"
          [] p = "cohere" -> "_configure_cohere"
          [] p = "voyageai" -> "_configure_voyageai"
          [] p = "bedrock" -> "_configure_bedrock"
          [] p = "huggingface" -> "_configure_huggingface"
          [] p = "watson" -> "_configure_watson"
          [] p = "custom" -> "_configure_custom"]

\* the "config" dicts of the model: a "model" entry or none, and (for the
\* custom provider) an "embedder" entry: an EmbeddingFunction instance, some
\* other object that is not callable, or none
Models == {Absent, "m1"}
Embedders == {Absent, "EmbeddingFunction", "str"}
EmptyConfig == [model |-> Absent, embedder |-> Absent]

\* the arguments of configure_embedder: None (given = FALSE), or a dict with
\* or without "provider" and with or without "config"
EmbedderConfigs ==
    {[given |-> FALSE, provider |-> Absent, has_config |-> FALSE, config |-> EmptyConfig]}
    \cup {[given |-> TRUE, provider |-> p, has_config |-> FALSE, config |-> EmptyConfig] :
             p \in SupportedProviders \cup {Absent, "mistral"}}
    \cup {[given |-> TRUE, provider |-> p, has_config |-> TRUE,
           config |-> [model |-> m, embedder |-> Absent]] :
             p \in (SupportedProviders \cup {Absent, "mistral"}) \ {"custom"}, m \in Models}
    \cup {[given |-> TRUE, provider |-> "custom", has_config |-> TRUE,
           config |-> [model |-> m, embedder |-> c]] : m \in Models, c \in Embedders}

\* dict.get(key): None for a key the dict does not hold
Get(value) == IF value = Absent THEN None ELSE value

NoFunction == [cls |-> None, model_name |-> None]
Built(cls, model_name) == [cls |-> cls, model_name |-> model_name]
Returns(function) == [raised |-> None, returned |-> function]
Raises(exception) == [raised |-> exception, returned |-> NoFunction]

\* _create_default_embedding_function()
create_default_embedding_function ==
    Returns(Built("OpenAIEmbeddingFunction", "text-embedding-3-small"))

\* the _configure_<provider> methods: what `method` called with (config,
\* model_name) returns or raises. The URL of the Ollama config is taken to be
\* valid and the Watson packages to be installed; a custom embedder is an
\* EmbeddingFunction instance that validates, or an object that is not callable.
Configure(method, config, model_name) ==
    CASE method \in {"_configure_openai", "_configure_azure"} ->
             Returns(Built("OpenAIEmbeddingFunction", model_name))
      [] method = "_configure_ollama" ->
             IF model_name = None THEN Raises("ValueError")
             ELSE Returns(Built("OllamaEmbeddingFunction", model_name))
      [] method = "_configure_vertexai" ->
             Returns(Built("GoogleVertexEmbeddingFunction", model_name))
      [] method = "_configure_google" ->
             Returns(Built("GoogleGenerativeAiEmbeddingFunction", model_name))
      [] method = "_configure_cohere" ->
             Returns(Built("CohereEmbeddingFunction", model_name))
      [] method = "_configure_voyageai" ->
             Returns(Built("VoyageAIEmbeddingFunction", model_name))
      [] method = "_configure_bedrock" ->
             Returns(Built("AmazonBedrockEmbeddingFunction",
                           IF model_name # None THEN model_name ELSE "<default>"))
      [] method = "_configure_huggingface" ->
             Returns(Built("HuggingFaceEmbeddingServer", "<none>"))
      [] method = "_configure_watson" ->
             Returns(Built("WatsonEmbeddingFunction", Get(config.model)))
      [] method = "_configure_custom" ->
             IF config.embedder = "EmbeddingFunction"
             THEN Returns(Built("EmbeddingFunction", "<none>"))
             ELSE Raises("ValueError")

\* embedder_config.get("provider", "openai"): a provider by default
ProviderOrOpenai(embedder_config) ==
    IF embedder_config.provider = Absent THEN "openai" ELSE embedder_config.provider

\* embedder_config.get("provider")
ProviderOf(embedder_config) == Get(embedder_config.provider)

\* embedder_config.get("config", {})
ConfigOf(embedder_config) ==
    IF embedder_config.has_config THEN embedder_config.config ELSE EmptyConfig

\* config.get("model") if provider != "custom" else None
ModelNameOf(provider, config) == IF provider # "custom" THEN Get(config.model) ELSE None

\* every method called alike, the custom one too
CallArgumentsAlike(provider, config, model_name) == <<config, model_name>>

\* the arguments the selected method is called with
CallArguments(provider, config, model_name) ==
    IF provider = "custom" THEN <<config>> ELSE <<config, model_name>>

Invocation(method, arguments) == [method |-> method, arguments |-> arguments]

EmbedCall(embedder_config, raised, returned) ==
    [op |-> "configure_embedder", input |-> embedder_config,
     raised |-> raised, returned |-> returned]

EmbedIdle ==
    [op |-> "__init__",
     input |-> [given |-> FALSE, provider |-> Absent, has_config |-> FALSE,
                config |-> EmptyConfig],
     raised |-> None, returned |-> NoFunction]

\* configure_embedder(embedder_config)
ConfigureEmbedder(embedder_config) ==
    LET provider == ProviderOf(embedder_config)
        config == ConfigOf(embedder_config)
        model_name == ModelNameOf(provider, config)
    IN  /\ Len(embed_calls) < MaxEmbedCalls
        /\ IF ~embedder_config.given
           THEN LET out == create_default_embedding_function
                IN  /\ embed_calls' = Append(embed_calls,
                           Invocation("_create_default_embedding_function", <<>>))
                    /\ embed_last' = EmbedCall(embedder_config, out.raised, out.returned)
           ELSE IF provider \notin DOMAIN embedding_functions
           THEN /\ embed_calls' = embed_calls
                /\ embed_last' = EmbedCall(embedder_config,
                       "Exception: Unsupported embedding provider", NoFunction)
           ELSE LET method == embedding_functions[provider]
                    out == Configure(method, config, model_name)
                IN  /\ embed_calls' = Append(embed_calls,
                           Invocation(method, CallArguments(provider, config, model_name)))
                    /\ embed_last' = EmbedCall(embedder_config, out.raised, out.returned)
        /\ UNCHANGED <<evalVars, memVars>>

-----------------------------------------------------------------------------
(* Memory *)

Values == {"v1", "v2"}
Agents == {None, "", "a1"}       \* the agent argument: None, empty, or a name
EmptyDict == [agent |-> Absent, source |-> Absent]

\* the metadata argument: None (given = FALSE), or a dict with or without the
\* keys "agent" and "source"
Metadatas ==
    {[given |-> FALSE, dict |-> EmptyDict]}
    \cup {[given |-> TRUE, dict |-> [agent |-> a, source |-> s]] :
             a \in {Absent, "a0"}, s \in {Absent, "s"}}

Limits == {3, 5}                 \* limit; 3 is the default
Thresholds == {35}               \* score_threshold in hundredths; 0.35 is the default

\* bool(x) of an optional dict or string
Truthy(metadata) == metadata.given /\ metadata.dict # EmptyDict
TruthyAgent(agent) == agent # None /\ agent # ""

\* metadata.setdefault("agent", agent): an "agent" entry of metadata is kept
SaveMetadataKeepingAgent(metadata, agent) ==
    LET given == IF Truthy(metadata) THEN metadata.dict ELSE EmptyDict
    IN  IF TruthyAgent(agent) /\ given.agent = Absent
        THEN [given EXCEPT !.agent = agent] ELSE given

\* the metadata save hands to the storage
SaveMetadata(metadata, agent) ==
    LET given == IF Truthy(metadata) THEN metadata.dict ELSE EmptyDict
    IN  IF TruthyAgent(agent) THEN [given EXCEPT !.agent = agent] ELSE given

MemCall(op, value, metadata, agent) ==
    [op |-> op, value |-> value, metadata |-> metadata, agent |-> agent]

MemIdle == MemCall("__init__", "", [given |-> FALSE, dict |-> EmptyDict], None)

\* save(value, metadata, agent)
Save(value, metadata, agent) ==
    /\ Len(storage_saved) + Len(storage_searched) < MaxStorageCalls
    /\ storage_saved' = Append(storage_saved, <<value, SaveMetadata(metadata, agent)>>)
    /\ mem_last' = MemCall("save", value, metadata, agent)
    /\ UNCHANGED <<storage_searched, evalVars, embedVars>>

\* search(query, limit, score_threshold)
Search(query, limit, score_threshold) ==
    /\ Len(storage_saved) + Len(storage_searched) < MaxStorageCalls
    /\ storage_searched' = Append(storage_searched, <<query, limit, score_threshold>>)
    /\ mem_last' = MemCall("search", query, [given |-> FALSE, dict |-> EmptyDict], None)
    /\ UNCHANGED <<storage_saved, evalVars, embedVars>>

-----------------------------------------------------------------------------
(* Specifications *)

EmbedIdleInit == embed_calls = <<>> /\ embed_last = EmbedIdle
MemIdleInit == storage_saved = <<>> /\ storage_searched = <<>> /\ mem_last = MemIdle

\* the CrewEvaluator of a crew
Init == EvalInit /\ EmbedIdleInit /\ MemIdleInit

Next ==
    \/ NewEvaluator
    \/ \E i \in Iterations : SetIteration(i)
    \/ \E o \in TaskOutputs : Evaluate(o)
    \/ PrintCrewEvaluationResult

Spec == Init /\ [][Next]_vars

\* an EmbeddingConfigurator
EmbedInit == EvalInit /\ crew = <<>> /\ EmbedIdleInit /\ MemIdleInit

EmbedNext == \E c \in EmbedderConfigs : ConfigureEmbedder(c)

EmbedSpec == EmbedInit /\ [][EmbedNext]_vars

\* a Memory over a storage
MemoryInit == EvalInit /\ crew = <<>> /\ EmbedIdleInit /\ MemIdleInit

MemoryNext ==
    \/ \E v \in Values, m \in Metadatas, a \in Agents : Save(v, m, a)
    \/ \E q \in Values, l \in Limits, t \in Thresholds : Search(q, l, t)

MemorySpec == MemoryInit /\ [][MemoryNext]_vars

-----------------------------------------------------------------------------
(* Claims about CrewEvaluator (specification Spec) *)

\* the number of evaluate calls on the evaluator in use that returned while
\* its iteration was i
Returned(i) == IF i \in DOMAIN okCount THEN okCount[i] ELSE 0

\* C1: for every iteration number i, tasks_scores[i] holds as many scores as
\* run_execution_times[i] holds execution times, and both are the number of
\* evaluate calls on the evaluator that returned without raising while its
\* iteration was i.
C1_StoresCountReturnedCalls ==
    \A i \in Iterations \cup DOMAIN tasks_scores \cup DOMAIN run_execution_times :
        /\ Len(Lookup(tasks_scores, i)) = Len(Lookup(run_execution_times, i))
        /\ Len(Lookup(tasks_scores, i)) = Returned(i)

\* C2: evaluate raises ValueError, and does not run the evaluation task,
\* whenever task_output is missing or its description is the description of
\* no task of the crew.
C2_UnknownOutputRaisesValueError ==
    [][\A o \in TaskOutputs :
          (Evaluate(o) /\ (o = NoOutput \/ \A k \in 1..Len(crew) : crew[k] # o))
              => (result'.raised = "ValueError" /\ ~result'.llm)]_vars

\* the sum over the iterations `keys` of the t-th score of each
RECURSIVE ColumnTotal(_, _, _)
ColumnTotal(scores, keys, t) ==
    IF keys = {} THEN 0
    ELSE LET i == CHOOSE x \in keys : TRUE
         IN  scores[i][t] + ColumnTotal(scores, keys \ {i}, t)

\* the sum over the tasks 1..m of the scores of iteration i
RECURSIVE RowTotal(_, _, _)
RowTotal(scores, i, m) ==
    IF m = 0 THEN 0 ELSE scores[i][m] + RowTotal(scores, i, m - 1)

RECURSIVE GrandTotal(_, _, _)
GrandTotal(scores, keys, m) ==
    IF m = 0 THEN 0 ELSE ColumnTotal(scores, keys, m) + GrandTotal(scores, keys, m - 1)

Printed == result.op = "print" /\ result.raised = None

OneScorePerTask == \A i \in DOMAIN tasks_scores : Len(tasks_scores[i]) = Len(crew)

\* C3: in a table printed when every recorded iteration holds one score per
\* crew task, the Avg. Total of task t is the mean over all recorded
\* iterations of the t-th score (shown with one decimal), the Crew value of a
\* run is the mean of that run's scores (two decimals), and the Crew Avg.
\* Total is the mean of the task averages (one decimal).
C3_TableAverages ==
    (Printed /\ OneScorePerTask) =>
        LET keys == DOMAIN tasks_scores
            n == Cardinality(keys)
            m == Len(crew)
        IN  /\ \A t \in 1..m :
                  result.table.tasks[t].avg
                      = Format(<<ColumnTotal(tasks_scores, keys, t), n>>, 1)
            /\ \A r \in 1..n :
                  result.table.crew.scores[r]
                      = Format(<<RowTotal(tasks_scores, r, m), m>>, 2)
            /\ result.table.crew.avg
                  = Format(<<GrandTotal(tasks_scores, keys, m), n * m>>, 1)

\* a printed table of two runs with different scores: 9.0 and 10.0, average 9.5
C3_Witness ==
    /\ Printed /\ OneScorePerTask
    /\ Len(crew) = 1 /\ Cardinality(DOMAIN tasks_scores) = 2
    /\ result.table.tasks[1].scores = <<90, 100>>
    /\ result.table.tasks[1].avg = 95
    /\ result.table.crew.scores = <<900, 1000>>
    /\ result.table.crew.avg = 95

\* the iterations under which scores were recorded
Recorded(scores) == {i \in DOMAIN scores : Len(scores[i]) > 0}

\* C4: called when scores were recorded (one per crew task under each
\* iteration that has any), print_crew_evaluation_result completes without
\* raising and without adding keys to tasks_scores, shows one Run column per
\* iteration under which scores were recorded, and the row of task t shows in
\* each such column the t-th score recorded under that iteration, whatever
\* the iteration numbers.
C4_OneColumnPerRecordedIteration ==
    [][(/\ PrintCrewEvaluationResult
        /\ Recorded(tasks_scores) # {}
        /\ \A i \in Recorded(tasks_scores) : Len(tasks_scores[i]) = Len(crew)) =>
          LET its == SortedSeq(Recorded(tasks_scores))
          IN  /\ result'.raised = None
              /\ DOMAIN tasks_scores' = DOMAIN tasks_scores
              /\ Len(result'.table.runs) = Len(its)
              /\ \A t \in 1..Len(crew) : \A c \in 1..Len(its) :
                     result'.table.tasks[t].scores[c]
                         = Format(Div(tasks_scores[its[c]][t], 1), 1)]_vars

-----------------------------------------------------------------------------
(* Claims about EmbeddingConfigurator (specification EmbedSpec) *)

\* the configure method named after a supported provider
ConfigureMethodOf(provider) ==
    CHOOSE method \in {"_configure_openai", "_configure_azure", "_configure_ollama",
                       "_configure_vertexai", "_configure_google", "_configure_cohere",
                       "_configure_voyageai", "_configure_bedrock",
                       "_configure_huggingface", "_configure_watson", "_configure_custom"} :
        \/ provider = "openai" /\ method = "_configure_openai"
        \/ provider = "azure" /\ method = "_configure_azure"
        \/ provider = "ollama" /\ method = "_configure_ollama"
        \/ provider = "vertexai" /\ method = "_configure_vertexai"
        \/ provider = "google" /\ method = "_configure_google"
        \/ provider = "cohere" /\ method = "_configure_cohere"
        \/ provider = "voyageai" /\ method = "_configure_voyageai"
        \/ provider = "bedrock" /\ method = "_configure_bedrock"
        \/ provider = "huggingface" /\ method = "_configure_huggingface"
        \/ provider = "watson" /\ method = "_configure_watson"
        \/ provider = "custom" /\ method = "_configure_custom"

\* the config dict of an argument, {} when it has none, and its "model"
GivenConfig(input) == IF input.has_config THEN input.config ELSE EmptyConfig
GivenModel(input) ==
    IF GivenConfig(input).model = Absent THEN None ELSE GivenConfig(input).model

\* C5: a configure_embedder call with None invokes the default function alone
\* and returns the OpenAI function of model text-embedding-3-small; a call
\* with one of the 11 supported providers invokes that provider's configure
\* method alone, with (config, config's model), or with config alone for
\* "custom".
C5_OneFunctionPerCall ==
    [][LET input == embed_last'.input
       IN  /\ ~input.given =>
                 /\ embed_calls' = Append(embed_calls,
                        [method |-> "_create_default_embedding_function",
                         arguments |-> <<>>])
                 /\ embed_last'.raised = None
                 /\ embed_last'.returned =
                        [cls |-> "OpenAIEmbeddingFunction",
                         model_name |-> "text-embedding-3-small"]
           /\ (input.given /\ input.provider \in SupportedProviders) =>
                 embed_calls' = Append(embed_calls,
                        [method |-> ConfigureMethodOf(input.provider),
                         arguments |->
                             IF input.provider = "custom"
                             THEN <<GivenConfig(input)>>
                             ELSE <<GivenConfig(input), GivenModel(input)>>])]_vars

\* after a call for "ollama", a call for "custom" with a model in its config
\* has invoked _configure_custom with the config alone
C5_Witness ==
    /\ embed_last.op = "configure_embedder"
    /\ embed_last.input.given /\ embed_last.input.provider = "custom"
    /\ embed_last.input.has_config /\ embed_last.input.config.model = "m1"
    /\ Len(embed_calls) = 2
    /\ embed_calls[1].method = "_configure_ollama"
    /\ embed_calls[1].arguments = <<[model |-> "m1", embedder |-> Absent], "m1">>
    /\ embed_calls[2].method = "_configure_custom"
    /\ Len(embed_calls[2].arguments) = 1

\* C6: a configure_embedder call with a config whose provider is absent or is
\* none of the 11 supported names raises the Unsupported embedding provider
\* exception and invokes no configure method and not the default function.
C6_UnsupportedProviderRaises ==
    [][LET input == embed_last'.input
       IN  (input.given /\ input.provider \notin SupportedProviders) =>
               /\ embed_last'.raised = "Exception: Unsupported embedding provider"
               /\ embed_calls' = embed_calls]_vars

\* a call without a provider has raised, after an earlier call was served
C6_Witness ==
    /\ embed_last.op = "configure_embedder"
    /\ embed_last.input.given /\ embed_last.input.provider = Absent
    /\ embed_last.raised = "Exception: Unsupported embedding provider"
    /\ Len(embed_calls) = 1

-----------------------------------------------------------------------------
(* Claims about Memory (specification MemorySpec) *)

NoAgent(agent) == agent \in {None, ""}

\* C7: save calls storage.save exactly once, with the value and with a
\* metadata that is empty when metadata is None and no agent is given, is the
\* given metadata when no agent or an empty agent is given, and is the given
\* metadata with "agent" set to the agent (over any "agent" entry) when a
\* non-empty agent is given; search makes no storage.save call.
C7_SaveForwardsOnce ==
    [][LET call == mem_last'
           dict == IF call.metadata.given THEN call.metadata.dict ELSE EmptyDict
       IN  /\ call.op = "save" =>
                 /\ Len(storage_saved') = Len(storage_saved) + 1
                 /\ SubSeq(storage_saved', 1, Len(storage_saved)) = storage_saved
                 /\ storage_saved'[Len(storage_saved')][1] = call.value
                 /\ LET sent == storage_saved'[Len(storage_saved')][2]
                    IN  /\ (~call.metadata.given /\ NoAgent(call.agent)) =>
                               (sent.agent = Absent /\ sent.source = Absent)
                        /\ NoAgent(call.agent) => sent = dict
                        /\ ~NoAgent(call.agent) =>
                               (sent.agent = call.agent /\ sent.source = dict.source)
           /\ call.op = "search" => storage_saved' = storage_saved]_vars

\* a save with agent "a1" of a metadata that holds another agent has handed
\* the storage the metadata with agent "a1"
C7_Witness ==
    /\ mem_last.op = "save" /\ mem_last.agent = "a1"
    /\ mem_last.metadata.given
    /\ mem_last.metadata.dict = [agent |-> "a0", source |-> "s"]
    /\ Len(storage_saved) = 2
    /\ storage_saved[2] = <<mem_last.value, [agent |-> "a1", source |-> "s"]>>

====
